---- MODULE Spec2Model ----
(***************************************************************************)
(* Expense-Tracker: the session guard (src/middleware.ts) and the auth     *)
(* context provider (SupabaseAuthProvider, src/unnamed/part_000).          *)
(*                                                                         *)
(* The backend service (session lookup, password sign-in, sign-out, the    *)
(* profiles table) and the SWR cache are the environment: their outcomes   *)
(* are drawn nondeterministically and the handlers are translated from the *)
(* source.                                                                 *)
(***************************************************************************)
EXTENDS Integers, FiniteSets, Sequences, TLC

VARIABLES
    cookie,         \* the session held by the browser (cookie / client auth state)
    profiles,       \* the backend's profiles table: user id -> row or NoRow
    serverSession,  \* the serverSession prop of SupabaseAuthProvider
    swrData,        \* SWR cache entry of key "profile-context": data
    swrError,       \* SWR cache entry of key "profile-context": error
    inflight,       \* the getUser call in flight: None or [uid |-> u]
    signIn,         \* the signInWithEmail call in flight: None or a record
    signOutCall,    \* a signOut call is awaiting supabase.auth.signOut()
    router,         \* pending router operation: "idle", "refresh", "push"
    supabase,       \* SupabaseProvider's useState cell: the service handle
    last            \* what the handler that ran last did (its observation)

vars == << cookie, profiles, serverSession, swrData, swrError,
           inflight, signIn, signOutCall, router, supabase, last >>

authVars == << serverSession, swrData, swrError, inflight, signIn,
               signOutCall, router, supabase >>

----------------------------------------------------------------------------
(* Bounds and value spaces *)

MaxUsers == 2
MaxTokens == 3
MaxRedirects == 3

Users == 1..MaxUsers
Tokens == 1..MaxTokens

\* JavaScript's null and undefined, kept apart
Null == [js |-> "null"]
Undefined == [js |-> "undefined"]
None == [js |-> "none"]
NoSession == Null
NoRow == [js |-> "norow"]

UserOf(t) == ((t - 1) % MaxUsers) + 1

Session(t) == [user |-> UserOf(t), access_token |-> t]

Sessions == { Session(t) : t \in Tokens }

\* session?.access_token of a null session: undefined
NoToken == 0

\* session?.access_token
AccessToken(s) == IF s = NoSession THEN NoToken ELSE s.access_token

Row(u) == [id |-> u]

RootPath == "/"
LoginPath == "/login"
Paths == { RootPath, LoginPath, "/about" }
Searches == { "", "?next=1" }
Requests == [pathname : Paths, search : Searches]

----------------------------------------------------------------------------
(* The session guard: src/middleware.ts *)

LookupOutcomes == { "ok", "error", "throws" }

\* supabase.auth.getSession(): the stored session, or a null session with an
\* error object, or a thrown exception
getSession(c, outcome) ==
    [ threw   |-> outcome = "throws",
      session |-> IF outcome = "ok" THEN c ELSE NoSession,
      error   |-> outcome = "error" ]

\* a redirect built from the path alone
Redirect_dropsQuery(req, path) ==
    [kind |-> "redirect", pathname |-> path, search |-> ""]

\* NextResponse.redirect(url): the request's URL with the pathname replaced
Redirect(req, path) ==
    [kind |-> "redirect", pathname |-> path, search |-> req.search]

PassThrough == [kind |-> "next"]

Rejected == [kind |-> "exception"]

\* a guard that has lost its first rule
middleware_noLoginRedirect(req, lookup) ==
    IF lookup.threw THEN Rejected
    ELSE IF lookup.session # NoSession /\ req.pathname = LoginPath
    THEN Redirect(req, RootPath)
    ELSE PassThrough

\* a guard that has lost its second rule
middleware_noRootRedirect(req, lookup) ==
    IF lookup.threw THEN Rejected
    ELSE IF lookup.session = NoSession /\ req.pathname = RootPath
    THEN Redirect(req, LoginPath)
    ELSE PassThrough

\* a guard that sends every request without a session to the login page
middleware_allPaths(req, lookup) ==
    IF lookup.threw THEN Rejected
    ELSE IF lookup.session = NoSession /\ req.pathname # LoginPath
    THEN Redirect(req, LoginPath)
    ELSE IF lookup.session # NoSession /\ req.pathname = LoginPath
    THEN Redirect(req, RootPath)
    ELSE PassThrough

\* middleware(req): the await of getSession has no try/catch, so a thrown
\* lookup rejects the guard's promise
middleware(req, lookup) ==
    IF lookup.threw THEN Rejected
    ELSE IF lookup.session = NoSession /\ req.pathname = RootPath
    THEN Redirect(req, LoginPath)
    ELSE IF lookup.session # NoSession /\ req.pathname = LoginPath
    THEN Redirect(req, RootPath)
    ELSE PassThrough

\* the redirects a response adds to a chain of requests
Redirects(resp) == IF resp.kind = "redirect" THEN 1 ELSE 0

\* a request that starts a chain: it follows no redirect
GuardObs(req, lookup, nav) ==
    [ op |-> "middleware", req |-> req, lookup |-> lookup,
      resp |-> middleware(req, lookup), nav |-> nav,
      followed |-> FALSE, prevSession |-> NoSession, stable |-> TRUE,
      redirects |-> Redirects(middleware(req, lookup)) ]

\* the request the browser makes for the target of the redirect prev.resp:
\* stable says that every lookup of the chain yielded the same session
FollowObs(prev, lookup) ==
    LET req  == [pathname |-> prev.resp.pathname, search |-> prev.resp.search]
        resp == middleware(req, lookup)
    IN [ op |-> "middleware", req |-> req, lookup |-> lookup, resp |-> resp,
         nav |-> prev.nav, followed |-> TRUE,
         prevSession |-> prev.lookup.session,
         stable |-> /\ prev.stable
                    /\ ~lookup.threw
                    /\ lookup.session = prev.lookup.session,
         redirects |-> prev.redirects + Redirects(resp) ]

\* an inbound request is handled by the guard
Request(req, outcome) ==
    /\ last' = GuardObs(req, getSession(cookie, outcome), FALSE)
    /\ UNCHANGED << cookie, profiles, authVars >>

\* the browser follows the redirect the guard issued: the guard handles the
\* request for its target (the browser gives up after MaxRedirects)
FollowRedirect(outcome) ==
    /\ last.op = "middleware"
    /\ last.resp.kind = "redirect"
    /\ last.redirects < MaxRedirects
    /\ last' = FollowObs(last, getSession(cookie, outcome))
    /\ UNCHANGED << cookie, profiles, authVars >>

\* the backend changes the browser's session: a sign-in or sign-out in
\* another tab, a token refresh, an expiry
SessionChange(s) ==
    /\ s # cookie
    /\ cookie' = s
    /\ UNCHANGED << profiles, authVars, last >>


----------------------------------------------------------------------------
(* The service handle: SupabaseProvider and useSupabase *)

\* the handle the first createClient() call of a UI tree returns; handles
\* are numbered by the createClient() calls of one lifetime of the tree
MountHandle == 1

\* the first render: useState runs its initializer, () => createClient()
SupabaseProviderMount == [handle |-> MountHandle, created |-> 1]

\* a provider that calls createClient() in its body, on every render
SupabaseProviderRender_perRender(cell) ==
    [handle |-> cell.created + 1, created |-> cell.created + 1]

\* a later render: useState returns the state it holds and does not run the
\* initializer
SupabaseProviderRender(cell) == cell

\* SupabaseProvider renders again
Rerender ==
    /\ supabase' = SupabaseProviderRender(supabase)
    /\ last' = [ op |-> "render", before |-> supabase.handle,
                 supabase |-> supabase'.handle ]
    /\ UNCHANGED << cookie, profiles, serverSession, swrData, swrError,
                    inflight, signIn, signOutCall, router >>

\* a consumer inside SupabaseProvider calls useSupabase(): the context value
UseSupabase ==
    /\ last' = [op |-> "useSupabase", supabase |-> supabase.handle]
    /\ UNCHANGED << cookie, profiles, authVars >>

----------------------------------------------------------------------------
(* The profile fetch: SupabaseAuthProvider.getUser and useSWR *)

ProfileKey == [key |-> "profile-context"]

\* useSWR(serverSession ? "profile-context" : null, getUser): the key
SWRKey(s) == IF s # NoSession THEN ProfileKey ELSE Null

\* what useSWR returns as data and error: nothing under a null key, the
\* cache entry of the key otherwise
UnderKey(key, entry) == IF key = Null THEN Undefined ELSE entry

\* the user and error fields of the context value
ExposedUser == UnderKey(SWRKey(serverSession), swrData)

ExposedError == UnderKey(SWRKey(serverSession), swrError)

\* SWR calls the fetcher unless a request of the key is already in flight
\* (deduplication); getUser reads serverSession?.user?.id when it is called
Revalidate(s) == IF inflight = None THEN [uid |-> s.user] ELSE inflight

\* SWR revalidates when a hook gets a key it did not have before
RevalidateOnKey(old, new) ==
    IF SWRKey(new) # Null /\ SWRKey(new) # SWRKey(old)
    THEN Revalidate(new)
    ELSE inflight

FetchOutcomes == { "ok", "error", "throws" }

\* a lookup that has lost its id filter
ProfileLookup_noFilter(table, uid, outcome) ==
    IF outcome = "throws"
    THEN [threw |-> TRUE, data |-> Null, error |-> FALSE]
    ELSE IF outcome = "error" \/ \A u \in Users : table[u] = NoRow
    THEN [threw |-> FALSE, data |-> Null, error |-> TRUE]
    ELSE [threw |-> FALSE, error |-> FALSE,
          data |-> table[CHOOSE u \in Users : table[u] # NoRow]]

\* from("profiles").select("*").eq("id", uid).single(): the row of that id;
\* an error object when there is no such row or the request fails; "throws"
\* stands for a rejected query
ProfileLookup(table, uid, outcome) ==
    IF outcome = "throws"
    THEN [threw |-> TRUE, data |-> Null, error |-> FALSE]
    ELSE IF outcome = "error" \/ table[uid] = NoRow
    THEN [threw |-> FALSE, data |-> Null, error |-> TRUE]
    ELSE [threw |-> FALSE, data |-> table[uid], error |-> FALSE]

\* a getUser that throws the error object instead of returning null
getUser_rethrow(lookup) ==
    IF lookup.threw \/ lookup.error
    THEN [rejected |-> TRUE, value |-> Undefined, logged |-> lookup.error]
    ELSE [rejected |-> FALSE, value |-> lookup.data, logged |-> FALSE]

\* a getUser whose error branch returns nothing
getUser_returnsUndefined(lookup) ==
    IF lookup.threw
    THEN [rejected |-> TRUE, value |-> Undefined, logged |-> FALSE]
    ELSE IF lookup.error
    THEN [rejected |-> FALSE, value |-> Undefined, logged |-> TRUE]
    ELSE [rejected |-> FALSE, value |-> lookup.data, logged |-> FALSE]

\* getUser: null and a console.log on an error object, the row otherwise; a
\* rejected query rejects getUser
getUser(lookup) ==
    IF lookup.threw
    THEN [rejected |-> TRUE, value |-> Undefined, logged |-> FALSE]
    ELSE IF lookup.error
    THEN [rejected |-> FALSE, value |-> Null, logged |-> TRUE]
    ELSE [rejected |-> FALSE, value |-> lookup.data, logged |-> FALSE]

\* what the fetch before this one returned, when the handler that ran last
\* was a fulfilled fetch for the same user id
PreviousFetch(uid) ==
    IF last.op = "getUser" /\ last.uid = uid /\ ~last.result.rejected
    THEN last.result.value
    ELSE None

\* the getUser call in flight settles and SWR stores its result: data on
\* fulfilment (the error is cleared), error on rejection (the data is kept)
GetUserResolve(outcome) ==
    /\ UNCHANGED supabase
    /\ inflight # None
    /\ LET lookup == ProfileLookup(profiles, inflight.uid, outcome)
           r      == getUser(lookup)
       IN /\ swrData' = IF r.rejected THEN swrData ELSE r.value
          /\ swrError' = IF r.rejected THEN [error |-> "rejected"] ELSE Undefined
          /\ last' = [ op |-> "getUser", uid |-> inflight.uid,
                       lookup |-> lookup, result |-> r,
                       prev |-> PreviousFetch(inflight.uid) ]
    /\ inflight' = None
    /\ UNCHANGED << cookie, profiles, serverSession, signIn, signOutCall, router >>

\* SWR revalidates the current key: on focus, on reconnect, on mutate()
Refetch ==
    /\ UNCHANGED supabase
    /\ SWRKey(serverSession) # Null
    /\ inflight = None
    /\ inflight' = Revalidate(serverSession)
    /\ UNCHANGED << cookie, profiles, serverSession, swrData, swrError,
                    signIn, signOutCall, router, last >>

\* router.refresh() completes: the server renders again and hands the
\* provider the session it reads from the cookie
ServerRender ==
    /\ router = "refresh"
    /\ supabase' = SupabaseProviderRender(supabase)
    /\ serverSession' = cookie
    /\ inflight' = RevalidateOnKey(serverSession, cookie)
    /\ router' = "idle"
    /\ UNCHANGED << cookie, profiles, swrData, swrError, signIn, signOutCall,
                    last >>

\* a full page load: the provider is constructed anew with the session the
\* server reads from the cookie, and with an empty SWR cache
Reload ==
    /\ supabase' = SupabaseProviderMount
    /\ serverSession' = cookie
    /\ swrData' = Undefined
    /\ swrError' = Undefined
    /\ inflight' = IF SWRKey(cookie) # Null THEN [uid |-> cookie.user] ELSE None
    /\ signIn' = None
    /\ signOutCall' = FALSE
    /\ router' = "idle"
    /\ last' = [op |-> "none"]
    /\ UNCHANGED << cookie, profiles >>

\* the backend's trigger creates the profile row of an account
CreateProfile(u) ==
    /\ profiles[u] = NoRow
    /\ profiles' = [profiles EXCEPT ![u] = Row(u)]
    /\ UNCHANGED << cookie, authVars, last >>

----------------------------------------------------------------------------
(* Auth-state change, sign-in and sign-out *)

AuthEvents == { "INITIAL_SESSION", "SIGNED_IN", "SIGNED_OUT", "TOKEN_REFRESHED" }

\* the events the client emits with and without a session
EventCarries(event, session) ==
    /\ event = "SIGNED_OUT" => session = NoSession
    /\ event \in { "SIGNED_IN", "TOKEN_REFRESHED" } => session # NoSession

\* a callback that compares the presence of a session only
shouldRefresh_presence(session, server) ==
    (session = NoSession) # (server = NoSession)

\* the callback's condition
shouldRefresh(session, server) == AccessToken(session) # AccessToken(server)

\* the onAuthStateChange callback runs with the client's current session
OnAuthStateChange(event) ==
    /\ UNCHANGED supabase
    /\ EventCarries(event, cookie)
    /\ router' = IF shouldRefresh(cookie, serverSession) THEN "refresh" ELSE router
    /\ last' = [ op |-> "onAuthStateChange", event |-> event,
                 token |-> AccessToken(cookie),
                 propToken |-> AccessToken(serverSession),
                 refreshed |-> shouldRefresh(cookie, serverSession) ]
    /\ UNCHANGED << cookie, profiles, serverSession, swrData, swrError,
                    inflight, signIn, signOutCall >>

Emails == Users
Passwords == { "secret", "wrong" }
NoError == Null
AuthErrors == { [message |-> "Invalid login credentials"], [message |-> ""] }

\* a string value
Str(m) == [str |-> m]

\* a signInWithEmail that tests the message instead of the error
signInWithEmail_truthy(error) ==
    IF error # NoError /\ error.message # ""
    THEN Str(error.message)
    ELSE Null

\* what signInWithEmail returns for the error field of signInWithPassword
signInWithEmail(error) == IF error # NoError THEN Str(error.message) ELSE Null

\* signInWithEmail(email, password) calls signInWithPassword and awaits it
SignInCall(email, password) ==
    /\ UNCHANGED supabase
    /\ signIn = None
    /\ signIn' = [email |-> email, password |-> password, calls |-> 1]
    /\ UNCHANGED << cookie, profiles, serverSession, swrData, swrError,
                    inflight, signOutCall, router, last >>

\* signInWithPassword settles: with no error the backend has stored a session
\* of that account; signInWithEmail returns
SignInResolve(error, t) ==
    /\ UNCHANGED supabase
    /\ signIn # None
    /\ UserOf(t) = signIn.email
    /\ cookie' = IF error = NoError THEN Session(t) ELSE cookie
    /\ last' = [ op |-> "signInWithEmail", email |-> signIn.email,
                 password |-> signIn.password, error |-> error,
                 returned |-> signInWithEmail(error), calls |-> signIn.calls ]
    /\ signIn' = None
    /\ UNCHANGED << profiles, serverSession, swrData, swrError, inflight,
                    signOutCall, router >>

\* signInWithGithub: signInWithOAuth is called and its result dropped
SignInWithGithub ==
    /\ last' = [ op |-> "signInWithGithub", provider |-> "github",
                 redirectTo |-> "http://localhost:3000/api/callback" ]
    /\ UNCHANGED << cookie, profiles, authVars >>

\* a signOut that navigates without awaiting supabase.auth.signOut()
SignOutCall_pushFirst ==
    /\ UNCHANGED supabase
    /\ ~signOutCall
    /\ signOutCall' = TRUE
    /\ router' = "push"
    /\ UNCHANGED << cookie, profiles, serverSession, swrData, swrError,
                    inflight, signIn, last >>

\* signOut calls supabase.auth.signOut() and awaits it
SignOutCall ==
    /\ UNCHANGED supabase
    /\ ~signOutCall
    /\ signOutCall' = TRUE
    /\ UNCHANGED << cookie, profiles, serverSession, swrData, swrError,
                    inflight, signIn, router, last >>

\* supabase.auth.signOut() settles (the session is removed unless it reports
\* an error) and signOut calls router.push("/login")
SignOutResolve(ok) ==
    /\ UNCHANGED supabase
    /\ signOutCall
    /\ cookie' = IF ok THEN NoSession ELSE cookie
    /\ signOutCall' = FALSE
    /\ router' = "push"
    /\ last' = [ op |-> "signOut", error |-> ~ok, pushed |-> LoginPath,
                 session |-> cookie' ]
    /\ UNCHANGED << profiles, serverSession, swrData, swrError, inflight, signIn >>

\* the pushed navigation reaches the guard
Navigate(outcome) ==
    /\ UNCHANGED supabase
    /\ router = "push"
    /\ router' = "idle"
    /\ last' = GuardObs([pathname |-> LoginPath, search |-> ""],
                        getSession(cookie, outcome), TRUE)
    /\ UNCHANGED << cookie, profiles, serverSession, swrData, swrError,
                    inflight, signIn, signOutCall >>

----------------------------------------------------------------------------
(* The auth context: Context, exposed and useAuth *)

\* createContext<ContextI>({...}): the default value (its functions left out)
AuthContextDefault == [user |-> Null, error |-> Null, isLoading |-> TRUE]

\* useSWR's isLoading: a request is in flight and no data is loaded yet
IsLoading ==
    SWRKey(serverSession) # Null /\ inflight # None /\ swrData = Undefined

\* exposed: the value SupabaseAuthProvider provides
AuthContextValue ==
    [user |-> ExposedUser, error |-> ExposedError, isLoading |-> IsLoading]

\* useContext(Context): the nearest provider's value, the default without one
useContext(inside) == IF inside THEN AuthContextValue ELSE AuthContextDefault

\* useAuth(): throws on an undefined context, returns the context otherwise
useAuth(inside) ==
    LET context == useContext(inside)
    IN IF context = Undefined
       THEN [ threw |-> TRUE,
              message |-> "useAuth must be used inside SupabaseAuthProvider" ]
       ELSE [threw |-> FALSE, value |-> context]

\* a component calls useAuth(), inside or outside SupabaseAuthProvider
UseAuth(inside) ==
    /\ last' = [op |-> "useAuth", inside |-> inside, result |-> useAuth(inside)]
    /\ UNCHANGED << cookie, profiles, authVars >>

----------------------------------------------------------------------------
(* Specifications *)

Init ==
    /\ cookie = NoSession
    /\ profiles = [u \in Users |-> NoRow]
    /\ serverSession = NoSession
    /\ swrData = Undefined
    /\ swrError = Undefined
    /\ inflight = None
    /\ signIn = None
    /\ signOutCall = FALSE
    /\ router = "idle"
    /\ supabase = SupabaseProviderMount
    /\ last = [op |-> "none"]

NextGuard ==
    \/ \E req \in Requests, outcome \in LookupOutcomes : Request(req, outcome)
    \/ \E s \in Sessions \cup {NoSession} : SessionChange(s)
    \/ \E outcome \in LookupOutcomes : FollowRedirect(outcome)

SpecGuard == Init /\ [][NextGuard]_vars

\* the profile fetch and what triggers it
NextProfile ==
    \/ \E s \in Sessions \cup {NoSession} : SessionChange(s)
    \/ \E u \in Users : CreateProfile(u)
    \/ \E outcome \in FetchOutcomes : GetUserResolve(outcome)
    \/ Refetch
    \/ \E event \in AuthEvents : OnAuthStateChange(event)
    \/ ServerRender
    \/ Reload

SpecProfile == Init /\ [][NextProfile]_vars

\* auth-state changes, sign-in and sign-out
NextAuth ==
    \/ \E s \in Sessions \cup {NoSession} : SessionChange(s)
    \/ \E event \in AuthEvents : OnAuthStateChange(event)
    \/ ServerRender
    \/ Reload
    \/ \E email \in Emails, password \in Passwords : SignInCall(email, password)
    \/ \E error \in AuthErrors \cup {NoError}, t \in Tokens : SignInResolve(error, t)
    \/ SignInWithGithub
    \/ SignOutCall
    \/ \E ok \in BOOLEAN : SignOutResolve(ok)
    \/ \E outcome \in LookupOutcomes : Navigate(outcome)
    \/ Rerender
    \/ UseSupabase
    \/ \E inside \in BOOLEAN : UseAuth(inside)

SpecAuth == Init /\ [][NextAuth]_vars

Next == NextGuard \/ NextProfile \/ NextAuth

Spec == Init /\ [][Next]_vars

----------------------------------------------------------------------------
(* Claims about the session guard *)

GuardRan == last.op = "middleware"

\* the lookup returned (it did not throw) and yielded no session
YieldedNoSession == ~last.lookup.threw /\ last.lookup.session = NoSession

\* the lookup returned and yielded a session
YieldedSession == ~last.lookup.threw /\ last.lookup.session # NoSession

\* C1: a request for exactly "/" whose session lookup yields no session is
\* answered by a redirect to "/login" and never passes through.
C1_RootWithoutSessionRedirects ==
    (GuardRan /\ last.req.pathname = RootPath /\ YieldedNoSession)
        => /\ last.resp.kind = "redirect"
           /\ last.resp.pathname = LoginPath
           /\ last.resp # PassThrough

C1_Witness ==
    /\ GuardRan /\ last.req.pathname = RootPath /\ YieldedNoSession
    /\ last.resp.kind = "redirect"

\* C2: a request for exactly "/login" whose session lookup yields a session
\* is answered by a redirect to "/".
C2_LoginWithSessionRedirects ==
    (GuardRan /\ last.req.pathname = LoginPath /\ YieldedSession)
        => /\ last.resp.kind = "redirect"
           /\ last.resp.pathname = RootPath

C2_Witness ==
    /\ GuardRan /\ last.req.pathname = LoginPath /\ YieldedSession
    /\ last.resp.kind = "redirect"

\* C3: every other (path, session) combination passes through: no redirect
\* is produced and the pass-through response is returned.
C3_OtherCombinationsPass ==
    (/\ GuardRan
     /\ ~last.lookup.threw
     /\ ~(last.req.pathname = RootPath /\ last.lookup.session = NoSession)
     /\ ~(last.req.pathname = LoginPath /\ last.lookup.session # NoSession))
        => last.resp = PassThrough

C3_Witness ==
    /\ GuardRan
    /\ last.req.pathname \notin {RootPath, LoginPath}
    /\ YieldedNoSession
    /\ last.resp = PassThrough

\* what the guard answers to a request that carries no session
NoSessionResponse(req) == middleware(req, getSession(NoSession, "ok"))

\* C4: a failed session lookup, whether it returns an error object or
\* throws, is answered exactly as a request without a session is: never by an
\* error response or an aborted request.
C4_LookupFailureIsNoSession ==
    (GuardRan /\ (last.lookup.threw \/ last.lookup.error))
        => /\ last.resp = NoSessionResponse(last.req)
           /\ last.resp # Rejected

----------------------------------------------------------------------------
(* Claims about the profile fetch *)

Rows == { Row(u) : u \in Users }

\* the user of the serverSession prop changes to another user
UserChanges ==
    /\ serverSession' # NoSession
    /\ serverSession = NoSession \/ serverSession.user # serverSession'.user

\* when no fetch is in flight, an exposed profile row is the row of the
\* current session's user
ProfileOfSession ==
    (serverSession # NoSession /\ inflight = None /\ ExposedUser \in Rows)
        => ExposedUser.id = serverSession.user

\* C5: every change of the provider's session to another user's session
\* starts a profile fetch for the new session's user id, and the exposed
\* profile never stays that of a previous session's user.
C5_SessionChangeRefetches ==
    [][ /\ UserChanges => inflight' = [uid |-> serverSession'.user]
        /\ ProfileOfSession' ]_vars

FetchRan == last.op = "getUser"

\* the single-row lookup returned an error object
LookupFailed == FetchRan /\ ~last.lookup.threw /\ last.lookup.error

\* the single-row lookup returned a row
LookupSucceeded == FetchRan /\ ~last.lookup.threw /\ ~last.lookup.error

\* C6: when the lookup returns an error the fetch resolves to null, logs the
\* error and leaves the exposed error field unset; when the lookup succeeds
\* the fetch resolves to the returned row.
C6_FetchResolvesOnError ==
    /\ LookupFailed =>
          /\ ~last.result.rejected
          /\ last.result.value = Null
          /\ last.result.logged
          /\ swrError = Undefined
          /\ ExposedError = Undefined
    /\ LookupSucceeded =>
          /\ ~last.result.rejected
          /\ last.result.value = last.lookup.data
          /\ last.result.value \in Rows
          /\ ~last.result.logged

C6_Witness ==
    /\ LookupFailed
    /\ last.result.value = Null
    /\ serverSession # NoSession
    /\ ExposedError = Undefined

\* what the provider exposes as user when no fetch was ever attempted: the
\* key is null
NeverFetchedUser == UnderKey(SWRKey(NoSession), swrData)

\* the state after a failed fetch, the session still present
AfterFailedFetch == LookupFailed /\ serverSession # NoSession

\* C7 (as stated): the user value exposed after a failed fetch is identical
\* to the one exposed when no fetch was ever attempted.
C7_FailedIdenticalToNeverFetched ==
    AfterFailedFetch => ExposedUser = NeverFetchedUser

\* C7 (amended): the user value exposed after a failed fetch is null and the
\* one exposed when no fetch was attempted is undefined: both are absent, no
\* profile row, but they are two values.
C7_FailedAndNeverFetchedAbsent ==
    /\ AfterFailedFetch => ExposedUser = Null
    /\ serverSession = NoSession => ExposedUser = Undefined
    /\ NeverFetchedUser = Undefined
    /\ Null \notin Rows /\ Undefined \notin Rows

C7_Witness ==
    /\ AfterFailedFetch
    /\ ExposedUser = Null
    /\ NeverFetchedUser = Undefined

\* a step that settles a fetch
FetchSettles == inflight # None /\ inflight' = None /\ last'.op = "getUser"

\* C8 (as stated): with the user id unchanged, every repeated fetch returns
\* the same profile row as the fetch before it.
C8_RepeatedFetchSameRow ==
    (FetchRan /\ last.prev \in Rows) => last.result.value = last.prev

\* C8 (amended): no fetch writes the profiles table; a fetch whose lookup
\* reports no error returns the row stored under the fetched user id, so
\* repeated fetches that succeed return the same row; a fetch whose lookup
\* reports an error returns null.
C8_FetchReadsStoredRow ==
    [][ FetchSettles =>
          /\ profiles' = profiles
          /\ LookupSucceeded' =>
                /\ last'.result.value = profiles[last'.uid]
                /\ last'.result.value.id = last'.uid
                /\ last'.prev \in Rows => last'.result.value = last'.prev
          /\ LookupFailed' => last'.result.value = Null ]_vars

C8_Witness ==
    /\ LookupSucceeded
    /\ last.prev \in Rows
    /\ last.result.value = last.prev
    /\ serverSession # NoSession /\ serverSession.user = last.uid

----------------------------------------------------------------------------
(* Claims about auth-state changes and sign-in *)

Notified == last.op = "onAuthStateChange"

\* C9 (as stated): every auth-state-change notification triggers
\* router.refresh, whatever its event and access token.
C9_EveryNotificationRefreshes == Notified => last.refreshed

\* C9 (amended): a notification triggers router.refresh exactly when the
\* access token it carries differs from the serverSession prop's, whatever
\* its event.
C9_RefreshIffTokenDiffers ==
    Notified => (last.refreshed <=> last.token # last.propToken)

C9_Witness ==
    /\ Notified
    /\ last.token # NoToken
    /\ last.token = last.propToken
    /\ ~last.refreshed

SignInRan == last.op = "signInWithEmail"

\* C10: signInWithEmail returns the backend's error message exactly when
\* signInWithPassword reports an error and null exactly when it reports
\* none, after a single backend call.
C10_SignInReturnsMessage ==
    SignInRan =>
        /\ last.error # NoError => last.returned = Str(last.error.message)
        /\ last.error = NoError <=> last.returned = Null
        /\ last.calls = 1

C10_Witness ==
    /\ SignInRan
    /\ last.error # NoError
    /\ last.returned = Str(last.error.message)

----------------------------------------------------------------------------
(* Claims about the service handle *)

\* C11: within one lifetime of the UI tree createClient() is called exactly
\* once, and every render and every consumer of useSupabase sees the handle
\* of that call, whatever sign-in, sign-out and auth-state-change events
\* happen.
C11_HandleCreatedOnce ==
    /\ supabase.created = 1
    /\ supabase.handle = MountHandle
    /\ last.op \in { "render", "useSupabase" } => last.supabase = MountHandle

C11_Witness ==
    /\ last.op = "useSupabase"
    /\ last.supabase = MountHandle
    /\ serverSession # NoSession
    /\ cookie # serverSession

----------------------------------------------------------------------------
(* Claims about the auth context *)

\* C12: useAuth called from a component that is not inside a
\* SupabaseAuthProvider raises "useAuth must be used inside
\* SupabaseAuthProvider" and returns no context value.
C12_UseAuthOutsideThrows ==
    (last.op = "useAuth" /\ ~last.inside)
        => /\ last.result.threw
           /\ last.result.message = "useAuth must be used inside SupabaseAuthProvider"

----------------------------------------------------------------------------
(* Claims about sign-out *)

\* router.push is called in this step
Pushes == router # "push" /\ router' = "push"

\* the step in which the awaited supabase.auth.signOut() settles
SignOutSettles == signOutCall /\ ~signOutCall' /\ last'.op = "signOut"

\* the guard handles the navigation signOut pushed, the session being the
\* one the sign-out left
PostSignOutRequest ==
    /\ router = "push" /\ router' = "idle"
    /\ last.op = "signOut" /\ cookie = last.session
    /\ last'.op = "middleware" /\ last'.nav

\* C13 (as stated): signOut navigates to "/login" only after the backend
\* call has resolved, and the guard does not redirect the post-sign-out
\* request for "/login" back to "/", also when the backend call reported an
\* error.
C13_SignOutEndsOnLogin ==
    [][ /\ Pushes => SignOutSettles
        /\ PostSignOutRequest =>
              /\ last'.req.pathname = LoginPath
              /\ ~(last'.resp.kind = "redirect" /\ last'.resp.pathname = RootPath) ]_vars

\* C13 (amended): signOut navigates to "/login" only after the backend call
\* has resolved; a sign-out that reported no error leaves no session and the
\* guard passes the request for "/login" through; whenever the guard's lookup
\* still yields a session, as after a sign-out that reported an error, the
\* guard redirects the request back to "/".
C13_SignOutThenGuard ==
    [][ /\ Pushes => SignOutSettles /\ last'.pushed = LoginPath
        /\ PostSignOutRequest =>
              /\ last'.req.pathname = LoginPath
              /\ ~last.error => last'.lookup.session = NoSession
              /\ (~last'.lookup.threw /\ last'.lookup.session = NoSession)
                    => last'.resp = PassThrough
              /\ last'.lookup.session # NoSession
                    => last'.resp = Redirect(last'.req, RootPath) ]_vars

C13_Witness ==
    /\ GuardRan /\ last.nav
    /\ last.req.pathname = LoginPath
    /\ last.lookup.session # NoSession
    /\ last.resp.kind = "redirect" /\ last.resp.pathname = RootPath
    /\ ~signOutCall

----------------------------------------------------------------------------
(* Claims about redirect chains *)

\* the guard handled the target of a redirect it issued, and its lookup
\* yielded the session it yielded for the redirected request
FollowedUnchanged ==
    /\ GuardRan /\ last.followed
    /\ ~last.lookup.threw
    /\ last.lookup.session = last.prevSession

\* C14: with the session the lookup yields unchanged between requests, the
\* guard passes the target of a redirect it issued through, so a chain holds
\* at most one redirect; a redirect replaces the path and keeps the rest of
\* the request's URL.
C14_NoRedirectLoop ==
    /\ FollowedUnchanged => last.resp = PassThrough
    /\ (GuardRan /\ last.stable) => last.redirects <= 1
    /\ (GuardRan /\ last.resp.kind = "redirect") =>
          /\ last.resp.search = last.req.search
          /\ last.resp.pathname # last.req.pathname
          /\ last.resp.pathname \in { RootPath, LoginPath }

C14_Witness ==
    /\ FollowedUnchanged /\ last.stable
    /\ last.resp = PassThrough
    /\ last.redirects = 1
    /\ last.req.search # ""
    /\ last.lookup.session # NoSession

====
